---------------------------- MODULE Spec2Model ----------------------------
(***************************************************************************)
(* Model of the manifest-synthesis and admission-control layer of the      *)
(* opentelemetry-operator:                                                 *)
(*   - the OpAMPBridge admission webhook (Default, ValidateCreate,         *)
(*     ValidateUpdate, ValidateDelete, validateCRDSpec);                   *)
(*   - the workload compilers targetallocator.Deployment,                  *)
(*     collector.DaemonSet and opampbridge.Deployment.                     *)
(*                                                                         *)
(* Go values are modelled as follows.                                      *)
(*   string          a sequence of one-character strings when the code     *)
(*                   looks inside it (TrimSpace, port-name syntax), a TLA+ *)
(*                   string otherwise                                      *)
(*   map[K]V         [isNil, kv] with kv a set of <<key, value>> pairs     *)
(*   *int32          [isNil, val]                                          *)
(*   []T             a slice header [arr, len, cap] into the variable heap *)
(*   error           a record whose kind is "nil" for the nil error        *)
(***************************************************************************)
EXTENDS Integers, Sequences, FiniteSets, TLC

VARIABLES
    r,          \* webhook: the OpAMPBridge under admission (the receiver *r)
    orig,       \* webhook: the resource as it was submitted
    hist,       \* webhook: the resource after each Default call, in order
    last,       \* webhook: the entry point invoked last
    ret,        \* webhook: the error the last validating entry point returned
    crdErr,     \* webhook: what validateCRDSpec returned inside the last ValidateCreate
    heap,       \* compiler: backing arrays of []corev1.Container slices
    otelcols,   \* compiler: the OpenTelemetryCollector resources, by name
    bridge,     \* compiler: the OpAMPBridge resource handed to opampbridge.Deployment
    cfg,        \* compiler: the process-wide config (label filter patterns)
    results     \* compiler: the completed compile calls, in order of return

wvars == <<r, orig, hist, last, ret, crdErr>>
cvars == <<heap, otelcols, bridge, cfg, results>>
vars == <<r, orig, hist, last, ret, crdErr, heap, otelcols, bridge, cfg, results>>

---------------------------------------------------------------------------
(* Bounds *)

MaxStrLen == 2      \* longest endpoint / protocol string drawn
MaxPorts == 2       \* longest Spec.Ports list drawn
MaxDefaults == 2    \* Default calls per admission run

---------------------------------------------------------------------------
(* Go helpers *)

\* seqs over S of length <= n
SeqsUpTo(S, n) == UNION {[1..k -> S] : k \in 0..n}

\* m[k] of a Go map: the zero value "" when the key is absent (also on a nil map)
MapGet(m, k) == IF \E p \in m.kv : p[1] = k
                THEN (CHOOSE p \in m.kv : p[1] = k)[2]
                ELSE ""

MapHas(m, k) == \E p \in m.kv : p[1] = k

\* m[k] = v on a non-nil map
MapSet(m, k, v) == [isNil |-> FALSE, kv |-> {p \in m.kv : p[1] # k} \cup {<<k, v>>}]

NilMap == [isNil |-> TRUE, kv |-> {}]
EmptyMap == [isNil |-> FALSE, kv |-> {}]
MkMap(pairs) == [isNil |-> FALSE, kv |-> pairs]

NilInt == [isNil |-> TRUE, val |-> 0]
PtrTo(n) == [isNil |-> FALSE, val |-> n]

\* unicode.IsSpace on the characters drawn
IsSpace(c) == c \in {" ", "\t", "\n", "\r"}

RECURSIVE TrimLeft(_)
TrimLeft(s) == IF s # <<>> /\ IsSpace(Head(s)) THEN TrimLeft(Tail(s)) ELSE s

RECURSIVE TrimRight(_)
TrimRight(s) == IF s # <<>> /\ IsSpace(s[Len(s)])
                THEN TrimRight(SubSeq(s, 1, Len(s) - 1))
                ELSE s

\* strings.TrimSpace
TrimSpace(s) == TrimRight(TrimLeft(s))

---------------------------------------------------------------------------
(* k8s.io/apimachinery/pkg/util/validation, as called by validateCRDSpec *)

\* [a-z] and [0-9] on the characters drawn for port names
IsLowerLetter(c) == c \in {"a", "b", "c", "z"}
IsDigit(c) == c \in {"0", "1", "9"}

HasDoubleHyphen(s) == \E i \in 1..(Len(s) - 1) : s[i] = "-" /\ s[i + 1] = "-"

\* validation.IsValidPortName: the list of violated rules, in the library's order
IsValidPortName(s) ==
    (IF Len(s) > 15 THEN <<"maxlen">> ELSE <<>>)
    \o (IF \A i \in 1..Len(s) : IsLowerLetter(s[i]) \/ IsDigit(s[i]) \/ s[i] = "-"
        THEN <<>> ELSE <<"charset">>)
    \o (IF \E i \in 1..Len(s) : IsLowerLetter(s[i]) THEN <<>> ELSE <<"oneletter">>)
    \o (IF HasDoubleHyphen(s) THEN <<"doublehyphen">> ELSE <<>>)
    \o (IF Len(s) > 0 /\ (s[1] = "-" \/ s[Len(s)] = "-") THEN <<"edgehyphen">> ELSE <<>>)

\* validation.IsValidPortNum: 1..65535 inclusive
IsValidPortNum(n) == IF 1 <= n /\ n <= 65535 THEN <<>> ELSE <<"range">>

---------------------------------------------------------------------------
(* apis/v1alpha1/opampbridge_webhook.go *)

UpgradeStrategyAutomatic == "automatic"
ManagedByKey == "app.kubernetes.io/managed-by"

NilError == [kind |-> "nil", name |-> <<>>, num |-> 0, nameErrs |-> <<>>, numErrs |-> <<>>]
FieldError(k) == [kind |-> k, name |-> <<>>, num |-> 0, nameErrs |-> <<>>, numErrs |-> <<>>]
PortError(p, ne, nu) ==
    [kind |-> "ports", name |-> p.Name, num |-> p.Port, nameErrs |-> ne, numErrs |-> nu]

\* Default with the replica default added to the count instead of filling a nil one
DefaultOp_ReplicasAdded(x) ==
    LET s1 == IF Len(x.UpgradeStrategy) = 0
              THEN [x EXCEPT !.UpgradeStrategy = UpgradeStrategyAutomatic]
              ELSE x
        s2 == IF s1.Labels.isNil THEN [s1 EXCEPT !.Labels = EmptyMap] ELSE s1
        s3 == IF MapGet(s2.Labels, ManagedByKey) = ""
              THEN [s2 EXCEPT !.Labels = MapSet(s2.Labels, ManagedByKey, "opentelemetry-operator")]
              ELSE s2
        s4 == IF s3.Replicas.isNil THEN [s3 EXCEPT !.Replicas = PtrTo(1)]
              ELSE [s3 EXCEPT !.Replicas = PtrTo(s3.Replicas.val + 1)]
    IN  s4

\* Default writing the managed-by label without looking at the present value
DefaultOp_ManagedByOverwritten(x) ==
    LET s1 == IF Len(x.UpgradeStrategy) = 0
              THEN [x EXCEPT !.UpgradeStrategy = UpgradeStrategyAutomatic]
              ELSE x
        s2 == IF s1.Labels.isNil THEN [s1 EXCEPT !.Labels = EmptyMap] ELSE s1
        s3 == [s2 EXCEPT !.Labels = MapSet(s2.Labels, ManagedByKey, "opentelemetry-operator")]
        s4 == IF s3.Replicas.isNil THEN [s3 EXCEPT !.Replicas = PtrTo(1)] ELSE s3
    IN  s4

\* the resource after r.Default()
DefaultOp(x) ==
    LET s1 == IF Len(x.UpgradeStrategy) = 0
              THEN [x EXCEPT !.UpgradeStrategy = UpgradeStrategyAutomatic]
              ELSE x
        s2 == IF s1.Labels.isNil THEN [s1 EXCEPT !.Labels = EmptyMap] ELSE s1
        s3 == IF MapGet(s2.Labels, ManagedByKey) = ""
              THEN [s2 EXCEPT !.Labels = MapSet(s2.Labels, ManagedByKey, "opentelemetry-operator")]
              ELSE s2
        s4 == IF s3.Replicas.isNil THEN [s3 EXCEPT !.Replicas = PtrTo(1)] ELSE s3
    IN  s4

\* the port loop of validateCRDSpec from index i on
RECURSIVE ValidatePorts(_, _)
ValidatePorts(ports, i) ==
    IF i > Len(ports) THEN NilError
    ELSE LET p == ports[i]
             nameErrs == IsValidPortName(p.Name)
             numErrs == IsValidPortNum(p.Port)
         IN  IF Len(nameErrs) > 0 \/ Len(numErrs) > 0
             THEN PortError(p, nameErrs, numErrs)
             ELSE ValidatePorts(ports, i + 1)

\* validateCRDSpec with the protocol check ahead of the endpoint check
validateCRDSpec_ProtocolFirst(x) ==
    IF Len(TrimSpace(x.Protocol)) = 0 THEN FieldError("protocol")
    ELSE IF Len(TrimSpace(x.Endpoint)) = 0 THEN FieldError("endpoint")
    ELSE IF Cardinality(x.Capabilities.kv) = 0 THEN FieldError("capabilities")
    ELSE ValidatePorts(x.Ports, 1)

validateCRDSpec(x) ==
    IF Len(TrimSpace(x.Endpoint)) = 0 THEN FieldError("endpoint")
    ELSE IF Len(TrimSpace(x.Protocol)) = 0 THEN FieldError("protocol")
    ELSE IF Cardinality(x.Capabilities.kv) = 0 THEN FieldError("capabilities")
    ELSE ValidatePorts(x.Ports, 1)

\* what ValidateCreate returns: validateCRDSpec's result is dropped (line 71)
ValidateCreateResult(x) == NilError

Default ==
    /\ Len(hist) < MaxDefaults
    /\ r' = DefaultOp(r)
    /\ hist' = Append(hist, r')
    /\ last' = "Default"
    /\ UNCHANGED <<orig, ret, crdErr>>
    /\ UNCHANGED cvars

ValidateCreate ==
    /\ crdErr' = validateCRDSpec(r)
    /\ ret' = ValidateCreateResult(r)
    /\ last' = "ValidateCreate"
    /\ UNCHANGED <<r, orig, hist>>
    /\ UNCHANGED cvars

ValidateUpdate ==
    /\ ret' = NilError
    /\ last' = "ValidateUpdate"
    /\ UNCHANGED <<r, orig, hist, crdErr>>
    /\ UNCHANGED cvars

ValidateDelete ==
    /\ ret' = NilError
    /\ last' = "ValidateDelete"
    /\ UNCHANGED <<r, orig, hist, crdErr>>
    /\ UNCHANGED cvars

---------------------------------------------------------------------------
(* Go slices of corev1.Container over the heap *)

ZeroContainer == [Name |-> "", Image |-> ""]
NilSlice == [arr |-> 0, len |-> 0, cap |-> 0]

\* the elements a slice header shows
SliceRead(h, s) == IF s.len = 0 THEN <<>> ELSE SubSeq(h[s.arr], 1, s.len)

\* the capacity runtime.growslice gives a slice that one more element overflows
GrowCap(c) == IF c = 0 THEN 1 ELSE c + c

\* append(s, x): in place when capacity is left, into a fresh array otherwise;
\* returns the heap after the call and the new slice header
GoAppend(h, s, x) ==
    IF s.len < s.cap
    THEN [heap |-> [h EXCEPT ![s.arr][s.len + 1] = x],
          slice |-> [arr |-> s.arr, len |-> s.len + 1, cap |-> s.cap]]
    ELSE LET nc == GrowCap(s.cap)
             fresh == [i \in 1..nc |->
                         IF i <= s.len THEN h[s.arr][i]
                         ELSE IF i = s.len + 1 THEN x
                         ELSE ZeroContainer]
         IN  [heap |-> Append(h, fresh),
              slice |-> [arr |-> Len(h) + 1, len |-> s.len + 1, cap |-> nc]]

\* the composite literal []corev1.Container{x}
SliceLiteral(h, x) ==
    [heap |-> Append(h, <<x>>), slice |-> [arr |-> Len(h) + 1, len |-> 1, cap |-> 1]]

---------------------------------------------------------------------------
(* Labels, annotations, naming and containers of the three compilers *)

ComponentKey == "app.kubernetes.io/component"
InstanceKey == "app.kubernetes.io/instance"
PartOfKey == "app.kubernetes.io/part-of"
NameKey == "app.kubernetes.io/name"
VersionKey == "app.kubernetes.io/version"

\* naming.Collector, naming.TargetAllocator, naming.OpAMPBridge
NamingCollector(n) == n \o "-collector"
NamingTargetAllocator(n) == n \o "-targetallocator"
NamingOpAMPBridge(n) == n \o "-opamp-bridge"

\* whether a label key matches a configured filter pattern
GlobMatch(pat, key) ==
    <<pat, key>> \in { <<"foo*", "foo">>, <<"foo*", "foobar">>, <<"app.*.bar", "app.foo.bar">> }

IsFilteredLabel(key, patterns) == \E pat \in patterns : GlobMatch(pat, key)

\* m with the pairs of over written onto it
MapMerge(m, over) ==
    MkMap({p \in m.kv : ~\E q \in over : q[1] = p[1]} \cup over)

\* SelectorLabels: component, instance, managed-by, part-of
SelectorLabelsOf(res, component) ==
    MkMap({ <<ManagedByKey, "opentelemetry-operator">>,
            <<InstanceKey, res.Namespace \o "." \o res.Name>>,
            <<PartOfKey, "opentelemetry">>,
            <<ComponentKey, component>> })

\* Labels: the unfiltered user labels, then the six identity labels over them
LabelsOf(res, name, patterns, component) ==
    MapMerge(MkMap({p \in res.Labels.kv : ~IsFilteredLabel(p[1], patterns)}),
             SelectorLabelsOf(res, component).kv
                 \cup { <<NameKey, name>>,
                        <<VersionKey, IF res.Version = "" THEN "latest" ELSE res.Version>> })

CollectorLabels(otelcol, name, patterns) ==
    LabelsOf(otelcol, name, patterns, "opentelemetry-collector")
CollectorSelectorLabels(otelcol) == SelectorLabelsOf(otelcol, "opentelemetry-collector")

\* targetallocator.Labels takes no filter patterns
TALabels(otelcol, name) == LabelsOf(otelcol, name, {}, "opentelemetry-targetallocator")

BridgeLabels(b, name, patterns) == LabelsOf(b, name, patterns, "opentelemetry-opamp-bridge")
BridgeSelectorLabels(b) == SelectorLabelsOf(b, "opentelemetry-opamp-bridge")

ConfigHashKey == "opentelemetry-targetallocator-config/hash"

\* targetallocator.Annotations(otelcol, configMap): the resource's annotations,
\* plus the config hash when a config map is given
TAAnnotations(otelcol, configMap) ==
    IF configMap.isNil THEN MkMap(otelcol.Annotations.kv)
    ELSE MapMerge(otelcol.Annotations, {<<ConfigHashKey, configMap.hash>>})

CollectorAnnotations(otelcol) == MkMap(otelcol.Annotations.kv)
CollectorPodAnnotations(otelcol) == MkMap(otelcol.PodAnnotations.kv)

\* getDNSPolicy
GetDNSPolicy(res) == IF res.HostNetwork THEN "ClusterFirstWithHostNet" ELSE "ClusterFirst"

CollectorContainer(config, otelcol) == [Name |-> "otc-container", Image |-> otelcol.Image]
TAContainer(config, otelcol) == [Name |-> "ta-container", Image |-> otelcol.TAImage]
BridgeContainer(config, b) == [Name |-> "opamp-bridge-container", Image |-> b.Image]

ServiceAccountName(res, name) ==
    IF res.ServiceAccount = "" THEN name ELSE res.ServiceAccount

NilConfigMap == [isNil |-> TRUE, hash |-> ""]

---------------------------------------------------------------------------
(* internal/manifests/targetallocator/deployment.go *)

\* lines 34-38: the config map handed to Annotations
TAConfigMapArg(cm) == IF cm.err THEN NilConfigMap ELSE [isNil |-> FALSE, hash |-> cm.hash]

\* lines 35-37: what the call logs
TALog(cm) ==
    IF cm.err THEN <<"failed to construct target allocator config map for annotations">>
    ELSE <<>>

NilManifest ==
    [isNil |-> TRUE, Kind |-> "", Name |-> "", Namespace |-> "", Labels |-> NilMap,
     Annotations |-> NilMap, Replicas |-> NilInt, Selector |-> NilMap,
     TemplateLabels |-> NilMap, TemplateAnnotations |-> NilMap,
     ServiceAccountName |-> "", Containers |-> NilSlice, NodeSelector |-> NilMap,
     HostNetwork |-> FALSE, DNSPolicy |-> ""]

\* Deployment giving up (returning nil) when ConfigMap fails
TADeployment_AbortOnError(h, config, otelcol, cm) ==
    LET name == NamingTargetAllocator(otelcol.Name)
        labels == TALabels(otelcol, name)
        annotations == TAAnnotations(otelcol, TAConfigMapArg(cm))
        cs == SliceLiteral(h, TAContainer(config, otelcol))
    IN  IF cm.err THEN [heap |-> h, manifest |-> NilManifest]
        ELSE
        [heap |-> cs.heap,
         manifest |->
            [isNil |-> FALSE,
             Kind |-> "Deployment",
             Name |-> name,
             Namespace |-> otelcol.Namespace,
             Labels |-> labels,
             Annotations |-> NilMap,
             Replicas |-> otelcol.TAReplicas,
             Selector |-> labels,
             TemplateLabels |-> labels,
             TemplateAnnotations |-> annotations,
             ServiceAccountName |-> ServiceAccountName(otelcol, name),
             Containers |-> cs.slice,
             NodeSelector |-> otelcol.TANodeSelector,
             HostNetwork |-> FALSE,
             DNSPolicy |-> ""]]

\* Deployment(params): the heap after the call and the manifest returned.
\* cm is what ConfigMap(params) returned.
TADeployment(h, config, otelcol, cm) ==
    LET name == NamingTargetAllocator(otelcol.Name)
        labels == TALabels(otelcol, name)
        annotations == TAAnnotations(otelcol, TAConfigMapArg(cm))
        cs == SliceLiteral(h, TAContainer(config, otelcol))
    IN  [heap |-> cs.heap,
         manifest |->
            [isNil |-> FALSE,
             Kind |-> "Deployment",
             Name |-> name,
             Namespace |-> otelcol.Namespace,
             Labels |-> labels,
             Annotations |-> NilMap,
             Replicas |-> otelcol.TAReplicas,
             Selector |-> labels,
             TemplateLabels |-> labels,
             TemplateAnnotations |-> annotations,
             ServiceAccountName |-> ServiceAccountName(otelcol, name),
             Containers |-> cs.slice,
             NodeSelector |-> otelcol.TANodeSelector,
             HostNetwork |-> FALSE,
             DNSPolicy |-> ""]]

---------------------------------------------------------------------------
(* collector.DaemonSet (pkg/opampbridge/deployment_test.go, lines 320-362) *)

\* DaemonSet stamping the pod template with the resource's own labels
DaemonSet_TemplateUserLabels(h, config, otelcol) ==
    LET name == NamingCollector(otelcol.Name)
        labels == CollectorLabels(otelcol, name, config.LabelsFilter)
        annotations == CollectorAnnotations(otelcol)
        podAnnotations == CollectorPodAnnotations(otelcol)
        cs == GoAppend(h, otelcol.AdditionalContainers, CollectorContainer(config, otelcol))
    IN  [heap |-> cs.heap,
         manifest |->
            [isNil |-> FALSE,
             Kind |-> "DaemonSet",
             Name |-> NamingCollector(otelcol.Name),
             Namespace |-> otelcol.Namespace,
             Labels |-> labels,
             Annotations |-> annotations,
             Replicas |-> NilInt,
             Selector |-> CollectorSelectorLabels(otelcol),
             TemplateLabels |-> otelcol.Labels,
             TemplateAnnotations |-> podAnnotations,
             ServiceAccountName |-> ServiceAccountName(otelcol, name),
             Containers |-> cs.slice,
             NodeSelector |-> otelcol.NodeSelector,
             HostNetwork |-> otelcol.HostNetwork,
             DNSPolicy |-> GetDNSPolicy(otelcol)]]

\* DaemonSet leaving the DNSPolicy field of the pod spec out
DaemonSet_NoDNSPolicy(h, config, otelcol) ==
    LET name == NamingCollector(otelcol.Name)
        labels == CollectorLabels(otelcol, name, config.LabelsFilter)
        annotations == CollectorAnnotations(otelcol)
        podAnnotations == CollectorPodAnnotations(otelcol)
        cs == GoAppend(h, otelcol.AdditionalContainers, CollectorContainer(config, otelcol))
    IN  [heap |-> cs.heap,
         manifest |->
            [isNil |-> FALSE,
             Kind |-> "DaemonSet",
             Name |-> NamingCollector(otelcol.Name),
             Namespace |-> otelcol.Namespace,
             Labels |-> labels,
             Annotations |-> annotations,
             Replicas |-> NilInt,
             Selector |-> CollectorSelectorLabels(otelcol),
             TemplateLabels |-> labels,
             TemplateAnnotations |-> podAnnotations,
             ServiceAccountName |-> ServiceAccountName(otelcol, name),
             Containers |-> cs.slice,
             NodeSelector |-> otelcol.NodeSelector,
             HostNetwork |-> otelcol.HostNetwork,
             DNSPolicy |-> ""]]

DaemonSet(h, config, otelcol) ==
    LET name == NamingCollector(otelcol.Name)
        labels == CollectorLabels(otelcol, name, config.LabelsFilter)
        annotations == CollectorAnnotations(otelcol)
        podAnnotations == CollectorPodAnnotations(otelcol)
        cs == GoAppend(h, otelcol.AdditionalContainers, CollectorContainer(config, otelcol))
    IN  [heap |-> cs.heap,
         manifest |->
            [isNil |-> FALSE,
             Kind |-> "DaemonSet",
             Name |-> NamingCollector(otelcol.Name),
             Namespace |-> otelcol.Namespace,
             Labels |-> labels,
             Annotations |-> annotations,
             Replicas |-> NilInt,
             Selector |-> CollectorSelectorLabels(otelcol),
             TemplateLabels |-> labels,
             TemplateAnnotations |-> podAnnotations,
             ServiceAccountName |-> ServiceAccountName(otelcol, name),
             Containers |-> cs.slice,
             NodeSelector |-> otelcol.NodeSelector,
             HostNetwork |-> otelcol.HostNetwork,
             DNSPolicy |-> GetDNSPolicy(otelcol)]]

---------------------------------------------------------------------------
(* opampbridge.Deployment, the function under test in deployment_test.go *)

BridgeDeployment(h, config, b) ==
    LET name == NamingOpAMPBridge(b.Name)
        labels == BridgeLabels(b, name, config.LabelsFilter)
        cs == SliceLiteral(h, BridgeContainer(config, b))
    IN  [heap |-> cs.heap,
         manifest |->
            [isNil |-> FALSE,
             Kind |-> "Deployment",
             Name |-> name,
             Namespace |-> b.Namespace,
             Labels |-> labels,
             Annotations |-> MkMap(b.Annotations.kv),
             Replicas |-> b.Replicas,
             Selector |-> BridgeSelectorLabels(b),
             TemplateLabels |-> labels,
             TemplateAnnotations |-> MkMap(b.PodAnnotations.kv),
             ServiceAccountName |-> ServiceAccountName(b, name),
             Containers |-> cs.slice,
             NodeSelector |-> b.NodeSelector,
             HostNetwork |-> b.HostNetwork,
             DNSPolicy |-> GetDNSPolicy(b)]]

---------------------------------------------------------------------------
(* Compile calls.  A call is one step: the only write a call makes to shared   *)
(* storage is the single cell append fills, so two overlapping calls leave in *)
(* that cell what one of the two orders of these steps leaves.                *)

MaxCalls == 2        \* compile calls per run
MaxAdditional == 2   \* longest Spec.AdditionalContainers drawn
MaxSpare == 1        \* most spare capacity behind Spec.AdditionalContainers

ConfigMapResults ==
    { [err |-> TRUE, hash |-> ""], [err |-> FALSE, hash |-> "h1"] }

Call(kind, name, cm, out, h) ==
    [kind |-> kind, res |-> name, cm |-> cm, manifest |-> out.manifest,
     containers |-> SliceRead(out.heap, out.manifest.Containers),
     configMapArg |-> IF kind = "targetallocator.Deployment" THEN TAConfigMapArg(cm)
                      ELSE NilConfigMap,
     log |-> IF kind = "targetallocator.Deployment" THEN TALog(cm) ELSE <<>>]

CallTADeployment ==
    /\ Len(results) < MaxCalls
    /\ \E n \in DOMAIN otelcols, cm \in ConfigMapResults :
          LET out == TADeployment(heap, cfg, otelcols[n], cm)
          IN  /\ heap' = out.heap
              /\ results' = Append(results, Call("targetallocator.Deployment", n, cm, out, heap))
    /\ UNCHANGED <<otelcols, bridge, cfg>>
    /\ UNCHANGED wvars

CallDaemonSet ==
    /\ Len(results) < MaxCalls
    /\ \E n \in DOMAIN otelcols :
          LET out == DaemonSet(heap, cfg, otelcols[n])
          IN  /\ heap' = out.heap
              /\ results' = Append(results,
                     Call("collector.DaemonSet", n, [err |-> FALSE, hash |-> ""], out, heap))
    /\ UNCHANGED <<otelcols, bridge, cfg>>
    /\ UNCHANGED wvars

CallBridgeDeployment ==
    /\ Len(results) < MaxCalls
    /\ LET out == BridgeDeployment(heap, cfg, bridge)
       IN  /\ heap' = out.heap
           /\ results' = Append(results,
                  Call("opampbridge.Deployment", bridge.Name, [err |-> FALSE, hash |-> ""], out, heap))
    /\ UNCHANGED <<otelcols, bridge, cfg>>
    /\ UNCHANGED wvars

---------------------------------------------------------------------------
(* Inputs of the compilers *)

CompileLabels ==
    { NilMap,
      MkMap({<<"team", "x">>}),
      MkMap({<<"foo", "1">>, <<"app.foo.bar", "1">>}),
      MkMap({<<InstanceKey, "mine">>, <<NameKey, "mine">>, <<"team", "x">>}) }

SideContainers ==
    << [Name |-> "side1", Image |-> "busybox"],
       [Name |-> "side2", Image |-> "envoy"],
       [Name |-> "side3", Image |-> "fluentd"],
       [Name |-> "side4", Image |-> "vector"] >>

\* a backing array holding n user containers and spare unused cells
UserArray(n, spare) ==
    [i \in 1..(n + spare) |-> IF i <= n THEN SideContainers[i] ELSE ZeroContainer]

Resource(name, labels, hostNetwork, additional) ==
    [Name |-> name, Namespace |-> "ns", Labels |-> labels,
     Annotations |-> MkMap({<<"owner", "sre">>}),
     PodAnnotations |-> MkMap({<<"scrape", "true">>}),
     Version |-> IF name = "b" THEN "0.88.0" ELSE "",
     Image |-> "img-" \o name, TAImage |-> "ta-img-" \o name,
     ServiceAccount |-> "",
     Replicas |-> NilInt, TAReplicas |-> PtrTo(1),
     NodeSelector |-> NilMap, TANodeSelector |-> MkMap({<<"zone", "z1">>}),
     HostNetwork |-> hostNetwork,
     AdditionalContainers |-> additional]

CompileInit ==
    \E labels \in CompileLabels, hn \in BOOLEAN, n \in 0..MaxAdditional,
       spare \in 0..MaxSpare, shared \in BOOLEAN,
       patterns \in {{}, {"foo*", "app.*.bar"}} :
        LET sa == IF n + spare = 0 THEN NilSlice
                  ELSE [arr |-> 1, len |-> n, cap |-> n + spare]
            sb == IF shared \/ n + spare = 0 THEN sa
                  ELSE [arr |-> 2, len |-> n, cap |-> n + spare]
        IN  /\ heap = IF n + spare = 0 THEN <<>>
                      ELSE IF shared THEN <<UserArray(n, spare)>>
                      ELSE <<UserArray(n, spare), UserArray(n, spare)>>
            /\ otelcols = [c \in {"a", "b"} |->
                             IF c = "a" THEN Resource("a", labels, hn, sa)
                             ELSE Resource("b", labels, ~hn, sb)]
            /\ bridge = Resource("br", labels, hn, NilSlice)
            /\ cfg = [LabelsFilter |-> patterns]
            /\ results = <<>>

WebhookIdle ==
    /\ r = <<>>
    /\ orig = <<>>
    /\ hist = <<>>
    /\ last = "none"
    /\ ret = NilError
    /\ crdErr = NilError

InitCompile == CompileInit /\ WebhookIdle

NextCompile == CallTADeployment \/ CallDaemonSet \/ CallBridgeDeployment

SpecCompile == InitCompile /\ [][NextCompile]_vars

---------------------------------------------------------------------------
(* Inputs of the webhook *)

Chars == {" ", "e"}
Strs == SeqsUpTo(Chars, MaxStrLen)

PortNames ==
    { <<>>, <<"a">>, <<"1">>, <<"a", "-", "1">>, <<"-", "a">>, <<"a", "-">>,
      <<"a", "-", "-", "b">>, <<"A">>, <<"a", "_">>,
      <<"a","a","a","a","a","a","a","a","a","a","a","a","a","a","a">>,
      <<"a","a","a","a","a","a","a","a","a","a","a","a","a","a","a","a">> }
PortNums == {-1, 0, 1, 65535, 65536}
AllPorts == [Name : PortNames, Port : PortNums]

\* one port per outcome: valid, bad name, bad number, both bad
FewPorts ==
    { [Name |-> <<"a">>, Port |-> 1],
      [Name |-> <<"1">>, Port |-> 80],
      [Name |-> <<"a">>, Port |-> 0],
      [Name |-> <<"-", "a">>, Port |-> 65536] }

UserLabels ==
    { NilMap, EmptyMap,
      MkMap({<<ManagedByKey, "">>}),
      MkMap({<<ManagedByKey, "helm">>}),
      MkMap({<<"foo", "1">>}),
      MkMap({<<"foo", "1">>, <<ManagedByKey, "">>}),
      MkMap({<<"foo", "1">>, <<ManagedByKey, "helm">>}) }

Caps == { EmptyMap, NilMap, MkMap({<<"AcceptsRemoteConfig", "true">>}),
          MkMap({<<"AcceptsRemoteConfig", "false">>}) }

Bridge(us, lb, rp, ep, pr, cp, po) ==
    [UpgradeStrategy |-> us, Labels |-> lb, Replicas |-> rp,
     Endpoint |-> ep, Protocol |-> pr, Capabilities |-> cp, Ports |-> po]

\* every combination of the fields Default reads, few of the validated ones
DefaultInputs ==
    { Bridge(us, lb, rp, ep, <<"e">>, cp, po) :
        us \in {"", "automatic", "none"}, lb \in UserLabels,
        rp \in {NilInt, PtrTo(0), PtrTo(1), PtrTo(3)},
        ep \in {<<>>, <<"e">>},
        cp \in {EmptyMap, MkMap({<<"AcceptsRemoteConfig", "true">>})},
        po \in {<<>>, <<[Name |-> <<"a">>, Port |-> 0]>>} }

\* every combination of the validated fields
ValidateInputs ==
    { Bridge("", NilMap, NilInt, ep, pr, cp, po) :
        ep \in Strs, pr \in Strs, cp \in Caps, po \in SeqsUpTo(FewPorts, MaxPorts) }

\* every port name and number, alone and behind a valid port
PortInputs ==
    { Bridge("", NilMap, NilInt, <<"e">>, <<"e">>,
             MkMap({<<"AcceptsRemoteConfig", "true">>}), po) :
        po \in {<<p>> : p \in AllPorts}
               \cup {<<[Name |-> <<"a">>, Port |-> 1], p>> : p \in AllPorts} }

WebhookInit ==
    /\ r \in DefaultInputs \cup ValidateInputs \cup PortInputs
    /\ orig = r
    /\ hist = <<>>
    /\ last = "none"
    /\ ret = NilError
    /\ crdErr = NilError

CompileIdle ==
    /\ heap = <<>>
    /\ otelcols = <<>>
    /\ bridge = <<>>
    /\ cfg = <<>>
    /\ results = <<>>

Init == WebhookInit /\ CompileIdle

Next == Default \/ ValidateCreate \/ ValidateUpdate \/ ValidateDelete

Spec == Init /\ [][Next]_vars

---------------------------------------------------------------------------
(* Properties of the admission webhook *)

\* the resource a Default call found: the submitted one, or the previous call's result
Pre(i) == IF i = 1 THEN orig ELSE hist[i - 1]

BlankString(s) == \A i \in 1..Len(s) : IsSpace(s[i])

BadPort(p) ==
    \/ Len(p.Name) > 15
    \/ \E i \in 1..Len(p.Name) : ~(IsLowerLetter(p.Name[i]) \/ IsDigit(p.Name[i]) \/ p.Name[i] = "-")
    \/ ~(\E i \in 1..Len(p.Name) : IsLowerLetter(p.Name[i]))
    \/ HasDoubleHyphen(p.Name)
    \/ (Len(p.Name) > 0 /\ (p.Name[1] = "-" \/ p.Name[Len(p.Name)] = "-"))
    \/ p.Port < 1
    \/ p.Port > 65535

MustReject(x) ==
    \/ BlankString(x.Endpoint)
    \/ BlankString(x.Protocol)
    \/ x.Capabilities.kv = {}
    \/ \E i \in 1..Len(x.Ports) : BadPort(x.Ports[i])

\* C1: ValidateCreate returns a non-nil error exactly when the endpoint or the
\* protocol is empty or whitespace-only, the capabilities are empty, or some port
\* has an invalid name or number.
C1_ValidateCreateRejects ==
    last = "ValidateCreate" => ((ret.kind # "nil") <=> MustReject(r))

\* the checks of validateCRDSpec in their documented order, TRUE where one fails
FailedChecks(x) ==
    <<BlankString(x.Endpoint), BlankString(x.Protocol), x.Capabilities.kv = {}>>
    \o [i \in 1..Len(x.Ports) |-> BadPort(x.Ports[i])]

FirstFailed(x) ==
    LET f == FailedChecks(x)
    IN  IF \E i \in 1..Len(f) : f[i]
        THEN CHOOSE i \in 1..Len(f) : f[i] /\ \A j \in 1..(i - 1) : ~f[j]
        ELSE 0

\* C10: validateCRDSpec checks endpoint, protocol, capabilities, then the ports in
\* declared order, and returns the error of the first check that fails (naming the
\* field, or the offending port's name and number); nil iff every check passes.
C10_FirstFailingCheck ==
    last = "ValidateCreate" =>
        LET k == FirstFailed(r)
        IN  /\ (k = 0) <=> (crdErr.kind = "nil")
            /\ k = 1 => crdErr.kind = "endpoint"
            /\ k = 2 => crdErr.kind = "protocol"
            /\ k = 3 => crdErr.kind = "capabilities"
            /\ k > 3 => /\ crdErr.kind = "ports"
                        /\ crdErr.name = r.Ports[k - 3].Name
                        /\ crdErr.num = r.Ports[k - 3].Port

\* the second port failed behind a valid first one
C10_Witness ==
    /\ last = "ValidateCreate"
    /\ Len(r.Ports) = 2
    /\ FirstFailed(r) = 5
    /\ crdErr.kind = "ports"

\* C6: Default is idempotent: a second Default leaves the resource as the first
\* one left it.
C6_DefaultIdempotent ==
    \A i \in 2..Len(hist) : hist[i] = hist[i - 1]

C6_Witness ==
    /\ Len(hist) >= 2
    /\ hist[1] # orig
    /\ orig.Labels.isNil
    /\ orig.Replicas.isNil

OtherLabels(m) == {p \in m.kv : p[1] # ManagedByKey}

\* C7: after Default the upgrade strategy is automatic if it was unset and
\* unchanged otherwise; managed-by is non-empty, "opentelemetry-operator" if it
\* was absent or empty and unchanged otherwise; replicas is 1 if unset and
\* unchanged otherwise; every other label and spec field is unchanged.
C7_DefaultPostcondition ==
    \A i \in 1..Len(hist) :
        LET pre == Pre(i)
            post == hist[i]
        IN  /\ post.UpgradeStrategy =
                  IF pre.UpgradeStrategy = "" THEN "automatic" ELSE pre.UpgradeStrategy
            /\ ~post.Labels.isNil
            /\ MapHas(post.Labels, ManagedByKey)
            /\ MapGet(post.Labels, ManagedByKey) # ""
            /\ MapGet(post.Labels, ManagedByKey) =
                  IF MapHas(pre.Labels, ManagedByKey) /\ MapGet(pre.Labels, ManagedByKey) # ""
                  THEN MapGet(pre.Labels, ManagedByKey)
                  ELSE "opentelemetry-operator"
            /\ OtherLabels(post.Labels) = OtherLabels(pre.Labels)
            /\ Cardinality(post.Labels.kv) = Cardinality(OtherLabels(pre.Labels)) + 1
            /\ post.Replicas = IF pre.Replicas.isNil THEN PtrTo(1) ELSE pre.Replicas
            /\ post.Endpoint = pre.Endpoint
            /\ post.Protocol = pre.Protocol
            /\ post.Capabilities = pre.Capabilities
            /\ post.Ports = pre.Ports
            /\ r = hist[Len(hist)]

\* a user label and a user-set managed-by survive next to defaulted fields
C7_Witness ==
    /\ Len(hist) = 1
    /\ MapGet(orig.Labels, "foo") = "1"
    /\ MapGet(orig.Labels, ManagedByKey) = "helm"
    /\ orig.UpgradeStrategy = ""
    /\ orig.Replicas = PtrTo(3)
    /\ orig.Ports # <<>>


---------------------------------------------------------------------------
(* Properties of the compilers *)

Keys(m) == {p[1] : p \in m.kv}

SelectorKeys == {ComponentKey, InstanceKey, ManagedByKey, PartOfKey}

\* the resource a completed call compiled
InputOf(c) == IF c.kind = "opampbridge.Deployment" THEN bridge ELSE otelcols[c.res]

\* C2: in every manifest a compiler returned, each selector label is a label of
\* the pod template, with the same value.
C2_SelectorWithinTemplate ==
    \A i \in 1..Len(results) :
        /\ ~results[i].manifest.isNil
        /\ \A p \in results[i].manifest.Selector.kv :
              /\ MapHas(results[i].manifest.TemplateLabels, p[1])
              /\ MapGet(results[i].manifest.TemplateLabels, p[1]) = p[2]

\* a DaemonSet whose resource carries user labels on identity keys, compiled
\* before a target allocator Deployment
C2_Witness ==
    /\ Len(results) = 2
    /\ results[1].kind = "collector.DaemonSet"
    /\ results[2].kind = "targetallocator.Deployment"
    /\ MapGet(otelcols[results[1].res].Labels, InstanceKey) = "mine"
    /\ results[1].manifest.Selector # results[1].manifest.TemplateLabels

\* C3: the selector of every compiled manifest has exactly the keys component,
\* instance, managed-by and part-of: never name, version or a user label.
C3_SelectorLabelsOnly ==
    \A i \in 1..Len(results) : Keys(results[i].manifest.Selector) = SelectorKeys

PrimaryName(kind) ==
    CASE kind = "collector.DaemonSet" -> "otc-container"
      [] kind = "targetallocator.Deployment" -> "ta-container"
      [] OTHER -> "opamp-bridge-container"

\* the user-declared additional containers of the resource a call compiled
AdditionalOf(c) ==
    IF c.kind = "collector.DaemonSet"
    THEN SliceRead(heap, otelcols[c.res].AdditionalContainers)
    ELSE <<>>

\* C5: the container list of every compiled pod spec is the managed primary
\* container at index 0 followed by the additional containers in declared order.
C5_PrimaryContainerFirst ==
    \A i \in 1..Len(results) :
        LET cs == results[i].containers
        IN  /\ Len(cs) = 1 + Len(AdditionalOf(results[i]))
            /\ cs[1].Name = PrimaryName(results[i].kind)
            /\ Tail(cs) = AdditionalOf(results[i])

\* a manifest without its pod-template annotations, its containers by value
Comparable(m, cs) == [m EXCEPT !.TemplateAnnotations = NilMap, !.Containers = cs]

\* what the call would have returned had ConfigMap succeeded with hash hh
OnSuccess(c, hh) == TADeployment(<<>>, cfg, otelcols[c.res], [err |-> FALSE, hash |-> hh])

\* C8: when ConfigMap fails, targetallocator.Deployment still returns a manifest:
\* the failure is logged, Annotations gets no config map, and everything but the
\* pod-template annotations is what a successful ConfigMap would have produced.
C8_ConfigMapFailureNotFatal ==
    \A i \in 1..Len(results) :
        (results[i].kind = "targetallocator.Deployment" /\ results[i].cm.err) =>
            LET c == results[i]
            IN  /\ ~c.manifest.isNil
                /\ c.configMapArg.isNil
                /\ Len(c.log) = 1
                /\ ~MapHas(c.manifest.TemplateAnnotations, ConfigHashKey)
                /\ \A hh \in {"h1", "h2"} :
                      LET ok == OnSuccess(c, hh)
                      IN  /\ Comparable(c.manifest, c.containers)
                             = Comparable(ok.manifest, SliceRead(ok.heap, ok.manifest.Containers))
                          /\ c.manifest.TemplateAnnotations.kv
                             = {p \in ok.manifest.TemplateAnnotations.kv : p[1] # ConfigHashKey}
                          /\ MapGet(ok.manifest.TemplateAnnotations, ConfigHashKey) = hh

\* the same collector compiled once with a failing and once with a working ConfigMap
C8_Witness ==
    /\ Len(results) = 2
    /\ results[1].kind = "targetallocator.Deployment"
    /\ results[2].kind = "targetallocator.Deployment"
    /\ results[1].res = results[2].res
    /\ results[1].cm.err
    /\ ~results[2].cm.err
    /\ results[1].manifest.TemplateAnnotations # results[2].manifest.TemplateAnnotations
    /\ results[1].manifest.Labels = results[2].manifest.Labels

\* the backing arrays reachable from the input resources
InputArrays == {otelcols[n].AdditionalContainers.arr : n \in DOMAIN otelcols} \ {0}

\* C9: a compile call writes to no storage reachable from its input or the
\* config, so the inputs are unchanged and the manifests already returned read
\* the same after the call as before it.
C9_CompileIsPure ==
    [][ /\ otelcols' = otelcols
        /\ bridge' = bridge
        /\ cfg' = cfg
        /\ \A a \in InputArrays : heap'[a] = heap[a]
        /\ \A i \in 1..Len(results) :
              SliceRead(heap', results[i].manifest.Containers)
              = SliceRead(heap, results[i].manifest.Containers) ]_vars

=============================================================================
